---- MODULE Spec2Model ----
(***************************************************************************)
(* Plan execution engine of Agents_Q: EnhancedWorkflow.execute_plan        *)
(* (src/app/enhanced_workflow.py) over the session store                   *)
(* (src/app/workflow_repository.py).                                       *)
(*                                                                         *)
(* One session is modelled.  `db` is the stored row of the session,        *)
(* `workflow` the WorkflowState object held by the running execute_plan,   *)
(* and completed_tasks / failed_tasks / running_async_tasks / ready_tasks  *)
(* are the local variables of execute_plan.  `pc` is the position of the   *)
(* driving loop.                                                           *)
(***************************************************************************)
EXTENDS Integers, Sequences, FiniteSets, TLC

\* ------------------------------------------------------------------ bounds
MaxTasks == 3
MaxEdges == 3
MaxRuns == 2
MaxWaits == 3
MaxGenerated == 2
MaxStored == 2
MaxAccepts == 2

\* ------------------------------------------------- constants of the source
STATUS_PENDING == "pending"
STATUS_RUNNING == "running"
STATUS_COMPLETED == "completed"
STATUS_FAILED == "failed"
STATUS_SKIPPED == "skipped"
final_report_id == "synthesize_final_report"

None == [kind |-> "None"]

\* Ids of the tasks of a plan, by position in the task list.
TaskNames == <<"A", "B", "C", "D", "E">>
TaskName(i) == TaskNames[i]

\* ------------------------------------------------------------- the inputs
\* Dependency edges <<i, j>>: the task at position i lists the task at
\* position j.  create_plan only checks that j names a task of the plan, so
\* self-dependencies, cycles and dependencies on later positions all pass.
RECURSIVE EdgeSets(_, _)
EdgeSets(pairs, k) ==
    IF k = 0 THEN {{}}
    ELSE LET smaller == EdgeSets(pairs, k - 1)
         IN  smaller \cup {s \cup {e} : s \in smaller, e \in pairs}

IdAt(n, synth, i) == IF synth /\ i = n THEN final_report_id ELSE TaskName(i)

\* A plan: the ordered task list of TasksOutput.tasks; each Task is its id
\* and its dependencies (title, description and agent_role do not steer the
\* scheduler).
MkPlan(n, synth, edges) ==
    [i \in 1..n |->
        [id |-> IdAt(n, synth, i),
         dependencies |-> {IdAt(n, synth, e[2]) : e \in {x \in edges : x[1] = i}}]]

PlansOfSize(n) ==
    {MkPlan(n, synth, edges) :
        synth \in BOOLEAN, edges \in EdgeSets((1..n) \X (1..n), MaxEdges)}

Plans == UNION {PlansOfSize(n) : n \in 0..MaxTasks}


\* ------------------------------------------------------------------ state
VARIABLES
    plan,                 \* the stored plan (TasksOutput.tasks), fixed once stored
    db,                   \* the stored row of the session (WorkflowSessionDB)
    workflow,             \* the WorkflowState object of the running execute_plan
    completed_tasks,      \* execute_plan local: Set[str]
    failed_tasks,         \* execute_plan local: Set[str]
    running_async_tasks,  \* execute_plan local: keys of Dict[str, asyncio.Task]
    ready_tasks,          \* execute_plan local: List[str] of the current round
    cancel_requested,     \* tracked invocations on which .cancel() was called
    pc,                   \* position of the driving loop
    returned,             \* value returned by the last execute_plan call
    runs,                 \* number of execute_plan calls so far
    waits,                \* number of asyncio.wait calls of the current run
    files,                \* the instance folder: artifact file name -> "exists" or "unreadable"
    faulted,              \* history: tasks with an invocation that raised or missed the window
    launched,             \* history: executor invocations created per task in the current run
    entry,                \* history: the row as loaded by the current execute_plan call
    on_update_calls,      \* the messages the current execute_plan call passed to on_update
    accept_events,        \* number of accept_plan events handle_accept_plan has handled
    background_tasks      \* number of execute_plan_task background tasks those handlers started

vars == <<plan, db, workflow, completed_tasks, failed_tasks, running_async_tasks,
          ready_tasks, cancel_requested, pc, returned, runs, waits, files, faulted, launched, entry,
          on_update_calls, accept_events, background_tasks>>

events == <<accept_events, background_tasks>>

hist == <<faulted, launched, entry>>

locals == <<completed_tasks, failed_tasks, running_async_tasks, ready_tasks,
            cancel_requested>>

\* ---------------------------------------------------------------- helpers
Range(f) == {f[x] : x \in DOMAIN f}

\* dict[k] = v
Put(d, k, v) == [x \in DOMAIN d \cup {k} |-> IF x = k THEN v ELSE d[x]]

\* dict.get(k): None when the key is absent
Get(d, k) == IF k \in DOMAIN d THEN d[k] ELSE "None"

EmptyDict == [x \in {} |-> "None"]

\* on_update(message, ...): execute_plan calls it right after each
\* workflow.updates.append, with a message for the same event (lines 141-145,
\* 171-175, 189-192, 204-206, 235-237, 278-281, 297-298, 363-367).  `old` and
\* `new` are the update log before and after a step.
on_update(calls, old, new) == calls \o SubSeq(new, Len(old) + 1, Len(new))

\* tasks_map = {task.id: task for task in plan.tasks}: a key keeps the
\* position of its first occurrence and the value of its last one.
RECURSIVE FirstOccurrences(_, _)
FirstOccurrences(p, i) ==
    IF i > Len(p) THEN <<>>
    ELSE IF \E j \in 1..(i - 1) : p[j].id = p[i].id
         THEN FirstOccurrences(p, i + 1)
         ELSE <<p[i].id>> \o FirstOccurrences(p, i + 1)

tasks_map_keys(p) == FirstOccurrences(p, 1)

tasks_map(p) ==
    [id \in {p[i].id : i \in DOMAIN p} |->
        p[CHOOSE i \in DOMAIN p :
            p[i].id = id /\ \A j \in DOMAIN p : p[j].id = id => j <= i]]

total_tasks(p) == Cardinality(DOMAIN tasks_map(p))

\* ------------------------------------------------------- the session store
\* WorkflowState as stored and as held in memory (session_id, user_query and
\* plan do not change during a run; the plan is the variable `plan`).
WorkflowState(accepted, results, statuses, status, updates, final) ==
    [has_plan |-> TRUE, accepted_plan |-> accepted, steps_results |-> results,
     step_statuses |-> statuses, status |-> status, updates |-> updates,
     final_result |-> final]

\* What get_workflow_db returns for a session id that has no row, and what
\* load_workflow_state returns for it.
NoRow == [kind |-> "no row"]
NoWorkflow == [kind |-> "no object"]
IsRow(row) == "status" \in DOMAIN row

\* The row create_workflow_session made, before any plan was stored.
RowWithoutPlan ==
    [WorkflowState(FALSE, EmptyDict, EmptyDict, "pending", <<>>, None)
        EXCEPT !.has_plan = FALSE]

\* load_workflow_state: None without a row; else the stored row, with the
\* statuses of an accepted plan initialised to pending when the stored map
\* is empty.
load_workflow_state(row, p) ==
    IF ~IsRow(row) THEN NoWorkflow
    ELSE IF row.has_plan /\ row.accepted_plan /\ DOMAIN row.step_statuses = {}
    THEN [row EXCEPT !.step_statuses =
              [id \in {p[i].id : i \in DOMAIN p} |-> STATUS_PENDING]]
    ELSE row

\* The steps_results setter of the row calls json.dumps: a result that is
\* neither text nor a dict of text (the output object of an agent with an
\* output_type) makes it raise TypeError.
json_dumps_ok(results) == \A t \in DOMAIN results : results[t].type # "other"

\* The row object of the session (a new one when there is no row) after the
\* setters that run before the steps_results setter raises: plan and
\* accepted_plan are assigned, nothing is committed.
DirtyRow(row, w) ==
    [(IF IsRow(row) THEN row ELSE RowWithoutPlan)
        EXCEPT !.has_plan = w.has_plan, !.accepted_plan = w.accepted_plan]

\* save_workflow_state: every field of the object is written to the row and
\* committed; when a setter raises, the session is rolled back, the row is
\* as it was and the function returns False.
save_workflow_state_NoRollback(row, w) ==
    IF json_dumps_ok(w.steps_results)
    THEN [ok |-> TRUE, row |-> w]
    ELSE [ok |-> FALSE, row |-> DirtyRow(row, w)]

save_workflow_state(row, w) ==
    IF json_dumps_ok(w.steps_results)
    THEN [ok |-> TRUE, row |-> w]
    ELSE [ok |-> FALSE, row |-> row]

\* ------------------------------------------------------------------- Init
\* The session after generate_plan_task stored a plan: not yet accepted.
InitOn(plans, at, rows) ==
    /\ plan \in plans
    /\ db \in rows
    /\ workflow = NoWorkflow
    /\ completed_tasks = {}
    /\ failed_tasks = {}
    /\ running_async_tasks = {}
    /\ ready_tasks = <<>>
    /\ cancel_requested = {}
    /\ pc = at
    /\ returned = None
    /\ runs = 0
    /\ waits = 0
    /\ files = EmptyDict
    /\ faulted = {}
    /\ launched = [id \in DOMAIN tasks_map(plan) |-> 0]
    /\ entry = db
    /\ on_update_calls = <<>>
    /\ accept_events = 0
    /\ background_tasks = 0

StoredPlanRow == WorkflowState(FALSE, EmptyDict, EmptyDict, "pending", <<>>, None)

\* A session with a stored plan, a session without one, or no session.
Init ==
    \/ InitOn(Plans, "idle", {StoredPlanRow})
    \/ InitOn({<<>>}, "idle", {RowWithoutPlan, NoRow})

\* --------------------------------------------------------------- accept_plan
\* accept_plan(session_id), called by handle_accept_plan.  `not workflow.plan`
\* is true of a TasksOutput only when it is None: an empty task list is a plan.
accept_plan_KeepsResults(row, p) ==
    LET w == load_workflow_state(row, p)
    IN  IF ~IsRow(w) THEN [ok |-> FALSE, row |-> row]
        ELSE IF ~w.has_plan THEN [ok |-> FALSE, row |-> row]
        ELSE save_workflow_state(row,
            [w EXCEPT !.accepted_plan = TRUE,
                      !.status = "accepted",
                      !.step_statuses = [id \in {p[i].id : i \in DOMAIN p} |-> STATUS_PENDING],
                      !.updates = Append(@, <<"Plan accepted by user. Ready for execution.">>)])

accept_plan(row, p) ==
    LET w == load_workflow_state(row, p)
    IN  IF ~IsRow(w) THEN [ok |-> FALSE, row |-> row]
        ELSE IF ~w.has_plan THEN [ok |-> FALSE, row |-> row]
        ELSE save_workflow_state(row,
            [w EXCEPT !.accepted_plan = TRUE,
                      !.status = "accepted",
                      !.step_statuses = [id \in {p[i].id : i \in DOMAIN p} |-> STATUS_PENDING],
                      !.steps_results = EmptyDict,
                      !.updates = Append(@, <<"Plan accepted by user. Ready for execution.">>)])

AcceptPlan ==
    /\ pc = "idle"
    /\ IsRow(db) => ~db.accepted_plan
    /\ db' = accept_plan(db, plan).row
    /\ UNCHANGED <<events, plan, workflow, locals, pc, returned, runs, waits, files, hist,
                   on_update_calls>>

\* ------------------------------------------------------ execute_plan: entry
LoopTest_RunsOnce(completed, failed, p) ==
    Cardinality(completed) + Cardinality(failed) <= total_tasks(p)

\* The while test of the main loop.
LoopTest(completed, failed, p) ==
    Cardinality(completed) + Cardinality(failed) < total_tasks(p)

LoopHead(completed, failed, p) ==
    IF LoopTest(completed, failed, p) THEN "readiness" ELSE "final"

\* Lines 127-137: the sets rebuilt from the loaded statuses, running tasks
\* reset to pending.
ResumeCompleted(statuses) == {t \in DOMAIN statuses : statuses[t] = STATUS_COMPLETED}
ResumeFailed(statuses) ==
    {t \in DOMAIN statuses : statuses[t] \in {STATUS_FAILED, STATUS_SKIPPED}}
ResumeStatuses_KeepRunning(statuses) == statuses

ResumeStatuses(statuses) ==
    [t \in DOMAIN statuses |->
        IF statuses[t] = STATUS_RUNNING THEN STATUS_PENDING ELSE statuses[t]]

\* Line 109: not workflow or not workflow.plan or not workflow.accepted_plan.
EntryTestFails_IgnoresAccepted(loaded) ==
    ~IsRow(loaded) \/ ~loaded.has_plan

EntryTestFails(loaded) ==
    ~IsRow(loaded) \/ ~loaded.has_plan \/ ~loaded.accepted_plan

ExecutePlanStart ==
    /\ pc \in {"idle", "done", "aborted"}
    /\ runs < MaxRuns
    /\ runs' = runs + 1
    /\ waits' = 0
    /\ entry' = load_workflow_state(db, plan)
    /\ launched' = [id \in DOMAIN tasks_map(plan) |-> 0]
    /\ LET loaded == load_workflow_state(db, plan)
       IN  IF EntryTestFails(loaded)
           THEN /\ returned' = [kind |-> "error", text |-> "not found, no plan, or not accepted"]
                /\ pc' = "idle"
                /\ workflow' = NoWorkflow
                /\ on_update_calls' = <<<<"Session not found, has no plan, or plan not accepted">>>>
                /\ UNCHANGED <<db, locals>>
           ELSE LET w == [loaded EXCEPT
                              !.step_statuses = ResumeStatuses(@),
                              !.status = "in_progress",
                              !.updates = Append(@, <<"Starting workflow execution", total_tasks(plan)>>)]
                    completed == ResumeCompleted(loaded.step_statuses)
                    failed == ResumeFailed(loaded.step_statuses)
                IN  /\ workflow' = w
                    /\ db' = save_workflow_state(db, w).row
                    /\ on_update_calls' = on_update(<<>>, loaded.updates, w.updates)
                    /\ completed_tasks' = completed
                    /\ failed_tasks' = failed
                    /\ running_async_tasks' = {}
                    /\ cancel_requested' = {}
                    /\ ready_tasks' = <<>>
                    /\ returned' = None
                    /\ pc' = LoopHead(completed, failed, plan)
    /\ UNCHANGED <<events, plan, files, faulted>>

\* ------------------------------------------------ main loop: readiness pass
\* Lines 160-175, one task of tasks_map: st carries the statuses, the update
\* log, failed_tasks, ready_tasks and whether a save happened.
ReadinessOne_AnyDependency(st, task_obj, completed) ==
    IF Get(st.statuses, task_obj.id) # STATUS_PENDING THEN st
    ELSE IF task_obj.dependencies = {}
            \/ \E dep_id \in task_obj.dependencies : dep_id \in completed
         THEN [st EXCEPT !.ready = Append(@, task_obj.id)]
    ELSE IF \E dep_id \in task_obj.dependencies : dep_id \in st.failed
         THEN [st EXCEPT !.statuses = Put(@, task_obj.id, STATUS_SKIPPED),
                         !.updates = Append(@, <<"Skipped task", task_obj.id>>),
                         !.failed = @ \cup {task_obj.id},
                         !.saved = TRUE]
    ELSE st

\* The pass without the status test of line 163.
ReadinessOne_IgnoresStatus(st, task_obj, completed) ==
    IF \A dep_id \in task_obj.dependencies : dep_id \in completed
    THEN [st EXCEPT !.ready = Append(@, task_obj.id)]
    ELSE IF \E dep_id \in task_obj.dependencies : dep_id \in st.failed
         THEN [st EXCEPT !.statuses = Put(@, task_obj.id, STATUS_SKIPPED),
                         !.updates = Append(@, <<"Skipped task", task_obj.id>>),
                         !.failed = @ \cup {task_obj.id},
                         !.saved = TRUE]
    ELSE st

ReadinessOne(st, task_obj, completed) ==
    IF Get(st.statuses, task_obj.id) # STATUS_PENDING THEN st
    ELSE IF \A dep_id \in task_obj.dependencies : dep_id \in completed
         THEN [st EXCEPT !.ready = Append(@, task_obj.id)]
    ELSE IF \E dep_id \in task_obj.dependencies : dep_id \in st.failed
         THEN [st EXCEPT !.statuses = Put(@, task_obj.id, STATUS_SKIPPED),
                         !.updates = Append(@, <<"Skipped task", task_obj.id>>),
                         !.failed = @ \cup {task_obj.id},
                         !.saved = TRUE]
    ELSE st

RECURSIVE ReadinessLoop(_, _, _, _, _)
ReadinessLoop(st, p, keys, i, completed) ==
    IF i > Len(keys) THEN st
    ELSE ReadinessLoop(ReadinessOne(st, tasks_map(p)[keys[i]], completed),
                       p, keys, i + 1, completed)

ReadinessPass ==
    /\ pc = "readiness"
    /\ LET st0 == [statuses |-> workflow.step_statuses, updates |-> workflow.updates,
                   failed |-> failed_tasks, ready |-> <<>>, saved |-> FALSE]
           st == ReadinessLoop(st0, plan, tasks_map_keys(plan), 1, completed_tasks)
           w == [workflow EXCEPT !.step_statuses = st.statuses, !.updates = st.updates]
       IN  /\ workflow' = w
           /\ db' = IF st.saved THEN save_workflow_state(db, w).row ELSE db
           /\ on_update_calls' = on_update(on_update_calls, workflow.updates, w.updates)
           /\ failed_tasks' = st.failed
           /\ ready_tasks' = st.ready
    /\ pc' = "stall"
    /\ UNCHANGED <<events, plan, completed_tasks, running_async_tasks, cancel_requested,
                   returned, runs, waits, files, hist>>

\* ------------------------------------------------ main loop: stall detection
\* Lines 177-196.
StallCondition(ready, running) == ready = <<>> /\ running = {}

pending_count(completed, failed, p) ==
    total_tasks(p) - Cardinality(completed) - Cardinality(failed)

StallCheck ==
    /\ pc = "stall"
    /\ IF /\ StallCondition(ready_tasks, running_async_tasks)
          /\ pending_count(completed_tasks, failed_tasks, plan) > 0
       THEN LET pend == {t \in DOMAIN workflow.step_statuses :
                            workflow.step_statuses[t] = STATUS_PENDING}
                w == [workflow EXCEPT
                         !.step_statuses = [t \in DOMAIN @ |->
                             IF t \in pend THEN STATUS_FAILED ELSE @[t]],
                         !.status = STATUS_FAILED,
                         !.updates = Append(@, <<"Workflow stalled",
                             pending_count(completed_tasks, failed_tasks, plan)>>)]
            IN  /\ workflow' = w
                /\ db' = save_workflow_state(db, w).row
                /\ on_update_calls' = on_update(on_update_calls, workflow.updates, w.updates)
                /\ failed_tasks' = failed_tasks \cup pend
                /\ pc' = "final"
       ELSE /\ pc' = "launch"
            /\ UNCHANGED <<workflow, db, failed_tasks, on_update_calls>>
    /\ UNCHANGED <<events, plan, completed_tasks, running_async_tasks, ready_tasks,
                   cancel_requested, returned, runs, waits, files, hist>>

\* ------------------------------------------------------ main loop: dispatch
\* Lines 198-212, one ready task.
LaunchOne(st, task_id) ==
    IF task_id \in st.running THEN st
    ELSE [st EXCEPT !.statuses = Put(@, task_id, STATUS_RUNNING),
                    !.updates = Append(@, <<"Starting task", task_id>>),
                    !.running = @ \cup {task_id},
                    !.created = @ \cup {task_id},
                    !.saved = TRUE]

\* A dispatch that creates one invocation per round: the first ready task
\* only.
RECURSIVE LaunchLoop_FirstOnly(_, _, _)
LaunchLoop_FirstOnly(st, ready, i) ==
    IF i > Len(ready) \/ i > 1 THEN st
    ELSE LaunchLoop_FirstOnly(LaunchOne(st, ready[i]), ready, i + 1)

RECURSIVE LaunchLoop(_, _, _)
LaunchLoop(st, ready, i) ==
    IF i > Len(ready) THEN st
    ELSE LaunchLoop(LaunchOne(st, ready[i]), ready, i + 1)

LaunchReady ==
    /\ pc = "launch"
    /\ LET st0 == [statuses |-> workflow.step_statuses, updates |-> workflow.updates,
                   running |-> running_async_tasks, created |-> {}, saved |-> FALSE]
           st == LaunchLoop(st0, ready_tasks, 1)
           w == [workflow EXCEPT !.step_statuses = st.statuses, !.updates = st.updates]
       IN  /\ workflow' = w
           /\ db' = IF st.saved THEN save_workflow_state(db, w).row ELSE db
           /\ on_update_calls' = on_update(on_update_calls, workflow.updates, w.updates)
           /\ running_async_tasks' = st.running
           /\ launched' = [id \in DOMAIN launched |->
                              IF id \in st.created THEN launched[id] + 1 ELSE launched[id]]
    /\ pc' = "harvest"
    /\ UNCHANGED <<events, plan, completed_tasks, failed_tasks, ready_tasks, cancel_requested,
                   returned, runs, waits, files, faulted, entry>>

\* ------------------------------------------------------- main loop: harvest
\* What the executor (Runner.run behind _execute_single_step) can hand back
\* for a task: RunResult.final_output is a str, a file-artifact dict with or
\* without a filename, or some other object.  Only the type of the synthesis
\* task's output steers execute_plan, so the other tasks return text.
StrOutput(t) == [type |-> "str", name |-> t]
ArtifactOutput(t) == [type |-> "file_artifact", name |-> t]
ArtifactNoFilename == [type |-> "file_artifact", name |-> "None"]
OtherOutput(t) == [type |-> "other", name |-> t]
NoOutput == [type |-> "none", name |-> "None"]

ExecutorOutputs(t) ==
    IF t = final_report_id
    THEN {StrOutput(t), ArtifactOutput(t), ArtifactNoFilename, OtherOutput(t)}
    ELSE {StrOutput(t)}

\* The state of an awaited asyncio.Task when asyncio.wait(..., timeout=60)
\* returns: finished with a result, finished with an exception, finished
\* cancelled (only after .cancel() was requested), or still unfinished.
\* `file` is what the invocation left in the instance folder under the name
\* its artifact dict carries: a readable file, an unreadable one, or nothing.
Ok(r, f) == [kind |-> "ok", output |-> r, file |-> f]
Raised == [kind |-> "error", output |-> NoOutput, file |-> "missing"]
Cancelled == [kind |-> "cancelled", output |-> NoOutput, file |-> "missing"]
Unfinished == [kind |-> "unfinished", output |-> NoOutput, file |-> "missing"]

FileEffects(r) ==
    IF r.type = "file_artifact" /\ r.name # "None"
    THEN {"exists", "unreadable", "missing"}
    ELSE {"missing"}

OutcomesOf(t, cancelled) ==
    UNION {{Ok(r, f) : f \in FileEffects(r)} : r \in ExecutorOutputs(t)}
        \cup {Raised, Unfinished}
        \cup (IF t \in cancelled THEN {Cancelled} ELSE {})

\* The instance folder after the invocations `ts` finished: an artifact
\* carries the id of its task as file name.
WriteFiles(fs, ts, out) ==
    LET written == {t \in ts : out[t].kind = "ok" /\ out[t].file # "missing"}
    IN  [n \in DOMAIN fs \cup written |->
            IF n \in written THEN out[n].file ELSE fs[n]]

\* An invocation may ignore the cancellation and stay unfinished window after
\* window; the model follows it for MaxWaits windows of a run.
MayStayUnfinished(t, cancelled, n) == t \notin cancelled \/ n < MaxWaits

\* The members of a set of task ids in the order of the task list.  (The
\* iteration order of the `done` and `pending` sets is not fixed by Python;
\* the log entries of one harvest are written here in task-list order.)
RECURSIVE InPlanOrder(_, _, _)
InPlanOrder(keys, i, S) ==
    IF i > Len(keys) THEN <<>>
    ELSE (IF keys[i] \in S THEN <<keys[i]>> ELSE <<>>) \o InPlanOrder(keys, i + 1, S)

\* Lines 223-285: one finished invocation with a result or an exception that
\* `except Exception` catches.
HandleDone_ResultNotStored(h, task_id, outcome) ==
    IF outcome.kind = "ok"
    THEN LET w == [h.w EXCEPT
                      !.step_statuses = Put(@, task_id, STATUS_COMPLETED),
                      !.updates = Append(@, <<"Completed task", task_id>>)]
         IN  [h EXCEPT !.w = w, !.db = save_workflow_state(h.db, w).row,
                       !.completed = @ \cup {task_id},
                       !.running = @ \ {task_id},
                       !.cancel = @ \ {task_id}]
    ELSE LET w == [h.w EXCEPT
                      !.step_statuses = Put(@, task_id, STATUS_FAILED),
                      !.updates = Append(@, <<"Failed task", task_id>>)]
         IN  [h EXCEPT !.w = w, !.db = save_workflow_state(h.db, w).row,
                       !.failed = @ \cup {task_id},
                       !.running = @ \ {task_id},
                       !.cancel = @ \ {task_id}]

HandleDone(h, task_id, outcome) ==
    IF outcome.kind = "ok"
    THEN LET w == [h.w EXCEPT
                      !.steps_results = Put(@, task_id, outcome.output),
                      !.step_statuses = Put(@, task_id, STATUS_COMPLETED),
                      !.updates = Append(@, <<"Completed task", task_id>>)]
         IN  [h EXCEPT !.w = w, !.db = save_workflow_state(h.db, w).row,
                       !.completed = @ \cup {task_id},
                       !.running = @ \ {task_id},
                       !.cancel = @ \ {task_id}]
    ELSE LET w == [h.w EXCEPT
                      !.step_statuses = Put(@, task_id, STATUS_FAILED),
                      !.updates = Append(@, <<"Failed task", task_id>>)]
         IN  [h EXCEPT !.w = w, !.db = save_workflow_state(h.db, w).row,
                       !.failed = @ \cup {task_id},
                       !.running = @ \ {task_id},
                       !.cancel = @ \ {task_id}]

RECURSIVE HandleDoneLoop(_, _, _, _)
HandleDoneLoop(h, order, i, out) ==
    IF i > Len(order) THEN h
    ELSE HandleDoneLoop(HandleDone(h, order[i], out[order[i]]), order, i + 1, out)

\* Lines 287-299: one invocation still unfinished when the window expired.
\* The status is set and .cancel() requested; the entry stays in
\* running_async_tasks and nothing is saved.
HandleTimeout(h, task_id) ==
    IF task_id \notin h.running THEN h
    ELSE [h EXCEPT !.w = [@ EXCEPT
                             !.step_statuses = Put(@, task_id, STATUS_FAILED),
                             !.updates = Append(@, <<"Failed task (timeout)", task_id>>)],
                   !.failed = @ \cup {task_id},
                   !.cancel = @ \cup {task_id}]

RECURSIVE HandleTimeoutLoop(_, _, _)
HandleTimeoutLoop(h, order, i) ==
    IF i > Len(order) THEN h
    ELSE HandleTimeoutLoop(HandleTimeout(h, order[i]), order, i + 1)

HarvestState ==
    [w |-> workflow, db |-> db, completed |-> completed_tasks, failed |-> failed_tasks,
     running |-> running_async_tasks, cancel |-> cancel_requested]

SetHarvestState(h) ==
    /\ workflow' = h.w
    /\ db' = h.db
    /\ on_update_calls' = on_update(on_update_calls, workflow.updates, h.w.updates)
    /\ completed_tasks' = h.completed
    /\ failed_tasks' = h.failed
    /\ running_async_tasks' = h.running
    /\ cancel_requested' = h.cancel

\* Line 215: nothing is tracked, the loop goes back to its test.
HarvestNothing ==
    /\ pc = "harvest"
    /\ running_async_tasks = {}
    /\ pc' = LoopHead(completed_tasks, failed_tasks, plan)
    /\ UNCHANGED <<events, plan, db, workflow, locals, returned, runs, waits, files, hist,
                   on_update_calls>>

\* Lines 216-299: asyncio.wait returned; every finished invocation yields a
\* result or an ordinary exception.
Harvest ==
    /\ pc = "harvest"
    /\ running_async_tasks # {}
    /\ \E out \in [running_async_tasks -> UNION {OutcomesOf(t, cancel_requested) : t \in running_async_tasks}] :
        /\ \A t \in running_async_tasks : out[t] \in OutcomesOf(t, cancel_requested)
        /\ \A t \in running_async_tasks : out[t].kind # "cancelled"
        /\ \A t \in running_async_tasks :
              out[t].kind = "unfinished" => MayStayUnfinished(t, cancel_requested, waits)
        /\ LET keys == tasks_map_keys(plan)
               done == {t \in running_async_tasks : out[t].kind # "unfinished"}
               pending == running_async_tasks \ done
               h1 == HandleDoneLoop(HarvestState, InPlanOrder(keys, 1, done), 1, out)
               h2 == HandleTimeoutLoop(h1, InPlanOrder(keys, 1, pending), 1)
           IN  /\ SetHarvestState(h2)
               /\ files' = WriteFiles(files, done, out)
               /\ faulted' = faulted \cup {t \in running_async_tasks : out[t].kind # "ok"}
               /\ pc' = LoopHead(h2.completed, h2.failed, plan)
    /\ UNCHANGED <<events, plan, ready_tasks, returned, runs, launched, entry>>
    /\ waits' = waits + 1

\* Lines 217-285 when a finished invocation is a cancelled one: .result()
\* raises CancelledError, which is not an Exception; the finally clause
\* drops the entry and the error leaves execute_plan.  `others` are the
\* finished invocations the for loop handled before it reached that one.
HarvestCancelled ==
    /\ pc = "harvest"
    /\ \E c \in running_async_tasks \cap cancel_requested :
       \E others \in SUBSET (running_async_tasks \ {c}) :
       \E out \in [others -> UNION {OutcomesOf(t, {}) : t \in others}] :
        /\ \A t \in others : out[t] \in OutcomesOf(t, {}) \ {Unfinished}
        /\ LET keys == tasks_map_keys(plan)
               h1 == HandleDoneLoop(HarvestState, InPlanOrder(keys, 1, others), 1, out)
               h2 == [h1 EXCEPT !.running = @ \ {c}, !.cancel = @ \ {c}]
           IN  /\ SetHarvestState(h2)
               /\ files' = WriteFiles(files, others, out)
               /\ faulted' = faulted \cup {c} \cup {t \in others : out[t].kind # "ok"}
    /\ pc' = "aborted"
    /\ returned' = [kind |-> "raised", error |-> "CancelledError"]
    /\ UNCHANGED <<events, plan, ready_tasks, runs, launched, entry>>
    /\ waits' = waits + 1

\* ------------------------------------------------- final result handling
\* _generate_final_report: the status of every task of the plan and every
\* stored result.
generate_final_report(p, results, statuses) ==
    [kind |-> "summary",
     statuses |-> [id \in DOMAIN tasks_map(p) |-> Get(statuses, id)],
     results |-> results]

\* Lines 308-353: the text made of the stored synthesis result, given the
\* instance folder `fs`.
SynthesisText(data, fs) ==
    IF data.type = "file_artifact"
    THEN IF data.name = "None" THEN [kind |-> "missing filename"]
         ELSE IF data.name \notin DOMAIN fs THEN [kind |-> "file not found", file |-> data.name]
         ELSE IF fs[data.name] = "exists" THEN [kind |-> "file content", file |-> data.name]
         ELSE [kind |-> "error reading file", file |-> data.name]
    ELSE IF data.type = "str" THEN [kind |-> "text", output |-> data]
    ELSE [kind |-> "str()", output |-> data]

\* Lines 302-361.  ', '.join(failed_tasks) lists the set in an order Python
\* does not fix; the text is modelled by the set it lists.
final_status(failed) == IF failed # {} THEN STATUS_FAILED ELSE STATUS_COMPLETED

FinalResultOf(p, w, failed, fs) ==
    IF final_status(failed) = STATUS_COMPLETED /\ final_report_id \in DOMAIN w.steps_results
    THEN SynthesisText(w.steps_results[final_report_id], fs)
    ELSE IF final_status(failed) = STATUS_COMPLETED
    THEN generate_final_report(p, w.steps_results, w.step_statuses)
    ELSE [kind |-> "Workflow failed", failed_tasks |-> failed]

FinalResult ==
    /\ pc = "final"
    /\  LET w == [workflow EXCEPT
                     !.status = final_status(failed_tasks),
                     !.final_result = FinalResultOf(plan, workflow, failed_tasks, files),
                     !.updates = Append(@, <<"Workflow finished", final_status(failed_tasks)>>)]
        IN  /\ workflow' = w
            /\ db' = save_workflow_state(db, w).row
            /\ on_update_calls' = on_update(on_update_calls, workflow.updates, w.updates)
            /\ returned' = w.final_result
    /\ pc' = "done"
    /\ UNCHANGED <<events, plan, locals, runs, waits, files, hist>>

\* ------------------------------------------------------------ process stop
\* The process running execute_plan dies: the object and the locals are
\* gone, the stored row stays.
Crash ==
    /\ pc \in {"readiness", "stall", "launch", "harvest", "final"}
    /\ runs < MaxRuns
    /\ pc' = "idle"
    /\ workflow' = NoWorkflow
    /\ completed_tasks' = {}
    /\ failed_tasks' = {}
    /\ running_async_tasks' = {}
    /\ ready_tasks' = <<>>
    /\ cancel_requested' = {}
    /\ waits' = 0
    /\ launched' = [id \in DOMAIN launched |-> 0]
    /\ on_update_calls' = <<>>
    /\ UNCHANGED <<events, plan, db, returned, runs, files, faulted, entry>>

\* ---------------------------------------------------------- specification
Next ==
    \/ AcceptPlan
    \/ ExecutePlanStart
    \/ ReadinessPass
    \/ StallCheck
    \/ LaunchReady
    \/ HarvestNothing
    \/ Harvest
    \/ HarvestCancelled
    \/ FinalResult
    \/ Crash

Spec == Init /\ [][Next]_vars

\* One execute_plan process at a time on a plan of one more task and no
\* synthesis id, without process death.
InitWide ==
    InitOn({p \in PlansOfSize(MaxTasks + 1) :
               \A i \in 1..Len(p) : p[i].id # final_report_id}, "idle",
           {StoredPlanRow})

NextWide ==
    \/ AcceptPlan
    \/ ExecutePlanStart
    \/ ReadinessPass
    \/ StallCheck
    \/ LaunchReady
    \/ HarvestNothing
    \/ Harvest
    \/ HarvestCancelled
    \/ FinalResult

SpecWide == InitWide /\ [][NextWide]_vars

\* ------------------------------------------------- the accept_plan event
\* handle_accept_plan: accept_plan, and when it returned True a new
\* execute_plan_task background task.  Nothing in the handler looks at what
\* the session is doing, so it runs whenever the event arrives: before a run,
\* between two steps of an execute_plan in progress, or after its end.  The
\* execute_plan a handler starts while another is in progress is a second
\* process on the same row; it is counted in background_tasks and the
\* specification goes on following the first.
HandleAcceptPlan ==
    /\ pc \in {"idle", "readiness", "stall", "launch", "harvest", "final", "done", "aborted"}
    /\ accept_events < MaxAccepts
    /\ accept_events' = accept_events + 1
    /\ db' = accept_plan(db, plan).row
    /\ background_tasks' =
          IF accept_plan(db, plan).ok THEN background_tasks + 1 ELSE background_tasks
    /\ UNCHANGED <<plan, workflow, locals, pc, returned, runs, waits, files, hist,
                   on_update_calls>>

\* A session with a stored plan of fewer than MaxTasks tasks, a session
\* without a plan, or no session.
InitSession ==
    \/ InitOn(UNION {PlansOfSize(n) : n \in 0..(MaxTasks - 1)}, "idle", {StoredPlanRow})
    \/ InitOn({<<>>}, "idle", {RowWithoutPlan, NoRow})

NextSession ==
    \/ HandleAcceptPlan
    \/ ExecutePlanStart
    \/ ReadinessPass
    \/ StallCheck
    \/ LaunchReady
    \/ HarvestNothing
    \/ Harvest
    \/ HarvestCancelled
    \/ FinalResult
    \/ Crash

SpecSession == InitSession /\ [][NextSession]_vars

\* ------------------------------------------- one run as a function of its inputs
\* One round of the main loop (lines 160-299) from the harvest state h, when
\* the invocation of task t is found as out[t] each time it is awaited:
\* readiness pass, stall test, dispatch, harvest.  `stalled` tells that the
\* round left the loop by the break of line 193.
MainLoopRound(p, out, h) ==
    LET keys == tasks_map_keys(p)
        r == ReadinessLoop([statuses |-> h.w.step_statuses, updates |-> h.w.updates,
                            failed |-> h.failed, ready |-> <<>>, saved |-> FALSE],
                           p, keys, 1, h.completed)
        w1 == [h.w EXCEPT !.step_statuses = r.statuses, !.updates = r.updates]
        db1 == IF r.saved THEN save_workflow_state(h.db, w1).row ELSE h.db
    IN  IF /\ StallCondition(r.ready, h.running)
           /\ pending_count(h.completed, r.failed, p) > 0
        THEN LET pend == {t \in DOMAIN w1.step_statuses :
                             w1.step_statuses[t] = STATUS_PENDING}
                 w == [w1 EXCEPT
                          !.step_statuses = [t \in DOMAIN @ |->
                              IF t \in pend THEN STATUS_FAILED ELSE @[t]],
                          !.status = STATUS_FAILED,
                          !.updates = Append(@, <<"Workflow stalled",
                              pending_count(h.completed, r.failed, p)>>)]
             IN  [stalled |-> TRUE,
                  h |-> [h EXCEPT !.w = w, !.db = save_workflow_state(db1, w).row,
                                  !.failed = r.failed \cup pend]]
        ELSE LET l == LaunchLoop([statuses |-> w1.step_statuses, updates |-> w1.updates,
                                  running |-> h.running, created |-> {}, saved |-> FALSE],
                                 r.ready, 1)
                 w2 == [w1 EXCEPT !.step_statuses = l.statuses, !.updates = l.updates]
                 db2 == IF l.saved THEN save_workflow_state(db1, w2).row ELSE db1
                 done == {t \in l.running : out[t].kind # "unfinished"}
                 pending == l.running \ done
                 h0 == [h EXCEPT !.w = w2, !.db = db2, !.failed = r.failed,
                                 !.running = l.running]
                 h1 == HandleDoneLoop(h0, InPlanOrder(keys, 1, done), 1, out)
                 h2 == HandleTimeoutLoop(h1, InPlanOrder(keys, 1, pending), 1)
             IN  [stalled |-> FALSE, h |-> h2]

\* The main loop, for at most `rounds` rounds.
RECURSIVE MainLoop(_, _, _, _)
MainLoop(p, out, h, rounds) ==
    IF rounds = 0 \/ ~LoopTest(h.completed, h.failed, p) THEN h
    ELSE LET round == MainLoopRound(p, out, h)
         IN  IF round.stalled THEN round.h
             ELSE MainLoop(p, out, round.h, rounds - 1)

\* execute_plan on the stored row: the object it saves last (lines 107-367).
execute_plan(row, p, out) ==
    LET loaded == load_workflow_state(row, p)
        w0 == [loaded EXCEPT
                  !.step_statuses = ResumeStatuses(@),
                  !.status = "in_progress",
                  !.updates = Append(@, <<"Starting workflow execution", total_tasks(p)>>)]
        h0 == [w |-> w0, db |-> save_workflow_state(row, w0).row,
               completed |-> ResumeCompleted(loaded.step_statuses),
               failed |-> ResumeFailed(loaded.step_statuses),
               running |-> {}, cancel |-> {}]
        h == MainLoop(p, out, h0, Len(p) + 1)
    IN  [h.w EXCEPT
            !.status = final_status(h.failed),
            !.final_result = FinalResultOf(p, h.w, h.failed, EmptyDict),
            !.updates = Append(@, <<"Workflow finished", final_status(h.failed)>>)]

\* The same tasks listed in another order.
Orders(n) == {f \in [1..n -> 1..n] : \A i, j \in 1..n : f[i] = f[j] => i = j}
Reordered(p, f) == [i \in 1..Len(p) |-> p[f[i]]]

\* What the invocation of a task does, the same in both runs: it returns
\* text, raises, or does not finish.
RunOutcomes(p) ==
    [{p[i].id : i \in DOMAIN p} -> {"returns", "raises", "hangs"}]

OutcomeOf(t, kind) ==
    IF kind = "returns" THEN Ok(StrOutput(t), "missing")
    ELSE IF kind = "raises" THEN Raised
    ELSE Unfinished

\* Plans of MaxTasks tasks without a dependency cycle.
AcyclicPlans ==
    {p \in PlansOfSize(MaxTasks) :
        \A f \in UNION {[1..k -> DOMAIN p] : k \in 1..MaxTasks} :
            ~(\A k \in DOMAIN f :
                 p[f[IF k = Len(f) THEN 1 ELSE k + 1]].id \in p[f[k]].dependencies)}

InitOrder == InitOn(AcyclicPlans, "to run", {StoredPlanRow})

\* The accepted plan is run as listed and as listed in another order.
RunBothOrders ==
    /\ pc = "to run"
    /\ \E f \in Orders(Len(plan)) : \E kinds \in RunOutcomes(plan) :
          LET out == [t \in DOMAIN kinds |-> OutcomeOf(t, kinds[t])]
              other == Reordered(plan, f)
          IN  /\ db' = accept_plan(db, plan).row
              /\ workflow' = execute_plan(accept_plan(db, plan).row, plan, out)
              /\ returned' = execute_plan(accept_plan(db, other).row, other, out)
              /\ entry' = [tasks |-> other, outcome |-> kinds]
    /\ pc' = "ran"
    /\ UNCHANGED <<events, plan, locals, runs, waits, files, faulted, launched,
                   on_update_calls>>

NextOrder == RunBothOrders

SpecOrder == InitOrder /\ [][NextOrder]_vars

\* ----------------------------------------------------- plan creation alone
\* What the plan creation agent may hand to create_plan: up to MaxGenerated
\* tasks, an id that may be empty or repeated, dependencies that may name
\* the task itself or no task of the plan ("X").
GeneratedTasks == [id : {"", "A", "B"}, dependencies : SUBSET {"A", "B", "X"}]

GeneratedPlans == UNION {[1..n -> GeneratedTasks] : n \in 0..MaxGenerated}

ValueError == [kind |-> "raised", error |-> "ValueError"]

\* create_plan, lines 55-65, on the generated plan p: the plan, or ValueError.
create_plan(p) ==
    LET task_ids == {p[i].id : i \in DOMAIN p}
    IN  IF Len(p) = 0 THEN ValueError
        ELSE IF \E i \in DOMAIN p :
                   \/ p[i].id = ""
                   \/ \E dep \in p[i].dependencies : dep \notin task_ids
        THEN ValueError
        ELSE [kind |-> "plan", tasks |-> p]

\* generate_plan_task: the plan is stored only when create_plan returned it.
CreatePlan ==
    /\ pc = "generated"
    /\ returned' = create_plan(plan)
    /\ IF create_plan(plan) = ValueError
       THEN pc' = "rejected" /\ db' = db
       ELSE pc' = "idle" /\ db' = save_workflow_state(db, [db EXCEPT !.has_plan = TRUE]).row
    /\ UNCHANGED <<events, plan, workflow, locals, runs, waits, files, hist, on_update_calls>>

InitCreate == InitOn(GeneratedPlans, "generated", {RowWithoutPlan})

NextCreate == CreatePlan

SpecCreate == InitCreate /\ [][NextCreate]_vars

\* ------------------------------------------------------ the repository alone
\* Objects a caller may hand to save_workflow_state for a session with the
\* task list p: any flags, a status and a result for any of the tasks.
DictsOver(keys, values) == UNION {[ks -> values] : ks \in SUBSET keys}

RepoObjects(p) ==
    LET ids == {p[i].id : i \in DOMAIN p}
    IN  [has_plan : BOOLEAN,
         accepted_plan : BOOLEAN,
         steps_results : {r \in DictsOver(ids, {StrOutput(t) : t \in ids}
                                                \cup {OtherOutput(t) : t \in ids}) :
                             \A t \in DOMAIN r : r[t].name = t},
         step_statuses : {EmptyDict} \cup [ids -> {STATUS_PENDING, STATUS_COMPLETED}],
         status : {"pending", "in_progress"},
         updates : {<<>>, <<<<"Plan accepted by user. Ready for execution.">>>>},
         final_result : {None, [kind |-> "text", output |-> StrOutput("A")]}]

InitRepo ==
    /\ plan \in {p \in PlansOfSize(MaxStored) :
                    \A i \in DOMAIN p : p[i].dependencies = {}}
    /\ db \in {NoRow, RowWithoutPlan}
    /\ workflow \in RepoObjects(plan)
    /\ completed_tasks = {}
    /\ failed_tasks = {}
    /\ running_async_tasks = {}
    /\ ready_tasks = <<>>
    /\ cancel_requested = {}
    /\ pc = "to save"
    /\ returned = None
    /\ runs = 0
    /\ waits = 0
    /\ files = EmptyDict
    /\ faulted = {}
    /\ launched = [id \in DOMAIN tasks_map(plan) |-> 0]
    /\ entry = db
    /\ on_update_calls = <<>>
    /\ accept_events = 0
    /\ background_tasks = 0

\* A caller saves the object and gets True or False.
SaveState ==
    /\ pc = "to save"
    /\ db' = save_workflow_state(db, workflow).row
    /\ returned' = [kind |-> "bool", ok |-> save_workflow_state(db, workflow).ok]
    /\ pc' = IF save_workflow_state(db, workflow).ok THEN "saved" ELSE "not saved"
    /\ UNCHANGED <<events, plan, workflow, locals, runs, waits, files, hist, on_update_calls>>

\* The caller loads the session right after the save.
LoadState ==
    /\ pc \in {"saved", "not saved"}
    /\ returned' = load_workflow_state(db, plan)
    /\ pc' = IF pc = "saved" THEN "loaded" ELSE "loaded old"
    /\ UNCHANGED <<events, plan, db, workflow, locals, runs, waits, files, hist, on_update_calls>>

NextRepo == SaveState \/ LoadState

SpecRepo == InitRepo /\ [][NextRepo]_vars

TypeOK ==
    /\ pc \in {"generated", "rejected", "idle", "readiness", "stall", "launch",
              "harvest", "final", "done", "aborted",
              "to save", "saved", "not saved", "loaded", "loaded old",
              "to run", "ran"}
    /\ completed_tasks \subseteq DOMAIN tasks_map(plan)
    /\ failed_tasks \subseteq DOMAIN tasks_map(plan)
    /\ running_async_tasks \subseteq DOMAIN tasks_map(plan)
    /\ cancel_requested \subseteq running_async_tasks
    /\ runs \in 0..MaxRuns

\* ================================================================ properties
Ids == DOMAIN tasks_map(plan)
Terminal == {STATUS_COMPLETED, STATUS_FAILED, STATUS_SKIPPED}

\* The status map of an object or row; empty when there is no object.
StatusesOf(w) == IF "step_statuses" \in DOMAIN w THEN w.step_statuses ELSE EmptyDict
StatusOf(w, t) == Get(StatusesOf(w), t)

DepsOf(t) == tasks_map(plan)[t].dependencies

\* Ids reachable from the set S along dependency edges in at most k steps.
RECURSIVE DepClosure(_, _)
DepClosure(S, k) ==
    IF k = 0 THEN S
    ELSE DepClosure(S \cup UNION {DepsOf(t) : t \in S}, k - 1)

\* Everything t depends on, directly or through a chain.
DependsOn(t) == DepClosure(DepsOf(t), Cardinality(Ids))

Acyclic == \A t \in Ids : t \notin DependsOn(t)

LoopExited == pc \in {"final", "done"}

\* C1: for an acyclic plan, once the main loop has exited every task has
\* status completed, failed or skipped.
C1_AllTerminalAtLoopExit ==
    (LoopExited /\ Acyclic) =>
        \A t \in Ids : StatusOf(workflow, t) \in Terminal

\* C2: at the end of a run on an acyclic plan, every task that depends,
\* directly or through a chain, on a task that ended failed has status skipped.
C2_DependentsOfFailedSkipped ==
    (pc = "done" /\ Acyclic) =>
        \A x \in Ids : StatusOf(workflow, x) = STATUS_FAILED =>
            \A y \in Ids : x \in DependsOn(y) => StatusOf(workflow, y) = STATUS_SKIPPED

\* C3: a step that sets a task running, in the object or in the stored row,
\* or creates its executor invocation, finds every dependency of the task
\* with status completed (in the stored row too when the object can be saved).
C3_DispatchOnlyAfterDependencies ==
    [][\A t \in Ids :
          (\/ (StatusOf(workflow', t) = STATUS_RUNNING /\ StatusOf(workflow, t) # STATUS_RUNNING)
           \/ (StatusOf(db', t) = STATUS_RUNNING /\ StatusOf(db, t) # STATUS_RUNNING)
           \/ (pc = "launch" /\ launched'[t] > launched[t]))
          => \A d \in DepsOf(t) :
                /\ StatusOf(workflow, d) = STATUS_COMPLETED
                /\ StatusOf(workflow', d) = STATUS_COMPLETED
                /\ json_dumps_ok(workflow'.steps_results) =>
                      StatusOf(db', d) = STATUS_COMPLETED]_vars

C3_Witness ==
    /\ pc = "harvest"
    /\ \E t \in running_async_tasks :
          /\ Cardinality(DepsOf(t)) = 2
          /\ StatusOf(workflow, t) = STATUS_RUNNING
          /\ launched[t] = 1

\* C4: a run on an acyclic plan in which no invocation raised or missed the
\* window ends with every task completed, a stored result for every task and
\* overall status completed; the row holds the same when the object can be
\* saved.
C4_AllSucceedAllCompleted ==
    (pc = "done" /\ Acyclic /\ faulted = {}) =>
        /\ \A t \in Ids : StatusOf(workflow, t) = STATUS_COMPLETED
        /\ DOMAIN workflow.steps_results = Ids
        /\ workflow.status = STATUS_COMPLETED
        /\ json_dumps_ok(workflow.steps_results) => db = workflow

C4_Witness ==
    /\ pc = "done"
    /\ faulted = {}
    /\ plan = <<[id |-> "A", dependencies |-> {}],
                [id |-> "B", dependencies |-> {"A"}],
                [id |-> "C", dependencies |-> {"A"}]>>
    /\ DOMAIN workflow.steps_results = {"A", "B", "C"}
    /\ workflow.status = STATUS_COMPLETED

\* C5: a run on an acyclic plan that ends without a completed synthesis task
\* stores the fallback summary (every task with its status, every stored
\* result) as final_result, also when the overall status is failed.
C5_FallbackSummaryWithoutSynthesis ==
    (pc = "done" /\ Acyclic /\ StatusOf(workflow, final_report_id) # STATUS_COMPLETED) =>
        /\ workflow.final_result =
              generate_final_report(plan, workflow.steps_results, workflow.step_statuses)
        /\ json_dumps_ok(workflow.steps_results) =>
              db.final_result = workflow.final_result

\* C6: when the synthesis task ends completed, final_result is made of that
\* task's stored result, whatever the status of the other tasks.
C6_SynthesisResultIsFinalResult ==
    (pc = "done" /\ StatusOf(workflow, final_report_id) = STATUS_COMPLETED) =>
        /\ final_report_id \in DOMAIN workflow.steps_results
        /\ workflow.final_result =
              SynthesisText(workflow.steps_results[final_report_id], files)

\* C7: at the end of a run on an acyclic plan the overall status is failed if
\* and only if some task has status failed or skipped, and completed otherwise.
C7_OverallStatusClassification ==
    (pc = "done" /\ Acyclic) =>
        LET bad == \E t \in Ids : StatusOf(workflow, t) \in {STATUS_FAILED, STATUS_SKIPPED}
        IN  /\ workflow.status = (IF bad THEN STATUS_FAILED ELSE STATUS_COMPLETED)
            /\ json_dumps_ok(workflow.steps_results) => db.status = workflow.status

\* C8: an execute_plan call on a row whose overall status is completed or
\* failed, and that holds the final_result of the run that ended, creates no
\* invocation, leaves every task status as it was and returns and stores
\* that same final_result.
C8_TerminalReinvocationIdempotent ==
    (/\ pc = "done"
     /\ entry.status \in {STATUS_COMPLETED, STATUS_FAILED}
     /\ entry.final_result.kind # "None") =>
        /\ \A t \in Ids : launched[t] = 0
        /\ workflow.step_statuses = entry.step_statuses
        /\ workflow.final_result = entry.final_result
        /\ json_dumps_ok(workflow.steps_results) =>
              db.final_result = entry.final_result
        /\ returned = entry.final_result

\* C9: the step that starts execute_plan on a row holding a task with status
\* running leaves that task pending and in neither bookkeeping set; during
\* the run such a task is in completed_tasks only after an invocation was
\* created for it in this run, and in failed_tasks only after that, after a
\* skip, or after the stall handler.
StartStep == runs' = runs + 1 /\ pc' # "idle"

C9_PersistedRunningRestarts ==
    [][\A t \in Ids :
          /\ (StartStep /\ StatusOf(db, t) = STATUS_RUNNING) =>
                /\ StatusOf(workflow', t) = STATUS_PENDING
                /\ StatusOf(db', t) = STATUS_PENDING
                /\ t \notin completed_tasks' \cup failed_tasks'
                /\ launched'[t] = 0
          /\ (pc' \notin {"idle", "aborted"} /\ StatusOf(entry', t) = STATUS_RUNNING) =>
                /\ t \in completed_tasks' => launched'[t] = 1
                /\ StatusOf(workflow', t) = STATUS_COMPLETED => launched'[t] = 1
                /\ (t \in failed_tasks' /\ launched'[t] = 0) =>
                      \/ StatusOf(workflow', t) = STATUS_SKIPPED
                      \/ workflow'.status = STATUS_FAILED
                /\ StatusOf(workflow', t) = STATUS_RUNNING => launched'[t] = 1]_vars

C9_Witness ==
    /\ pc = "done"
    /\ \E t \in Ids :
          /\ StatusOf(entry, t) = STATUS_RUNNING
          /\ DepsOf(t) # {}
          /\ StatusOf(workflow, t) = STATUS_COMPLETED
          /\ launched[t] = 1

\* C10: when, after a readiness pass, nothing is ready, no invocation is in
\* flight and some task is still pending, the round sets every pending task
\* to failed and the overall status to failed, appends the stall message to
\* the update log and leaves the main loop.
C10_StallFailsPending ==
    [][(/\ pc = "stall"
        /\ StallCondition(ready_tasks, running_async_tasks)
        /\ \E t \in Ids : StatusOf(workflow, t) = STATUS_PENDING) =>
          /\ pc' = "final"
          /\ \A t \in Ids : StatusOf(workflow, t) = STATUS_PENDING =>
                /\ StatusOf(workflow', t) = STATUS_FAILED
                /\ StatusOf(db', t) = STATUS_FAILED
          /\ workflow'.status = STATUS_FAILED
          /\ Len(workflow'.updates) = Len(workflow.updates) + 1
          /\ workflow'.updates[Len(workflow'.updates)][1] = "Workflow stalled"]_vars

\* C11: on an accepted plan with no task execute_plan never enters the main
\* loop and creates no invocation; it ends with overall status completed and
\* the fallback summary with no status line and no recorded result as
\* final_result, stored and returned.
C11_EmptyPlanCompletes ==
    Len(plan) = 0 =>
        /\ pc \in {"idle", "final", "done"}
        /\ running_async_tasks = {}
        /\ pc = "done" =>
              /\ workflow.status = STATUS_COMPLETED
              /\ workflow.final_result =
                    [kind |-> "summary", statuses |-> EmptyDict, results |-> EmptyDict]
              /\ returned = workflow.final_result
              /\ db = workflow

C11_Witness ==
    /\ Len(plan) = 0
    /\ pc = "done"
    /\ db.status = STATUS_COMPLETED
    /\ db.final_result.kind = "summary"

\* The defects of a generated plan.
HasEmptyId(p) == \E i \in DOMAIN p : p[i].id = ""
HasDuplicateId(p) == \E i, j \in DOMAIN p : i # j /\ p[i].id = p[j].id
HasUnknownDependency(p) ==
    \E i \in DOMAIN p : \E dep \in p[i].dependencies :
        \A j \in DOMAIN p : p[j].id # dep
HasSelfDependency(p) == \E i \in DOMAIN p : p[i].id \in p[i].dependencies

\* C12: create_plan raises on a plan in which a task id is empty, two tasks
\* share an id, a dependency names no task of the plan, or a task lists its
\* own id as a dependency; such a plan is never stored.
C12_ValidationRejects ==
    (/\ pc \in {"rejected", "idle"}
     /\ \/ HasEmptyId(plan)
        \/ HasDuplicateId(plan)
        \/ HasUnknownDependency(plan)
        \/ HasSelfDependency(plan)) =>
        /\ returned = ValueError
        /\ pc = "rejected"
        /\ ~db.has_plan

\* C13: an execute_plan call on a session that has no row, no plan or a plan
\* that is not accepted returns the error text, creates no invocation and
\* leaves the object-less state and the stored row as they were.
C13_FailFast ==
    [][(/\ runs' = runs + 1
        /\ \/ ~IsRow(db)
           \/ ~db.has_plan
           \/ ~db.accepted_plan) =>
          /\ returned'.kind = "error"
          /\ db' = db
          /\ workflow' = NoWorkflow
          /\ running_async_tasks' = {}
          /\ \A t \in Ids : launched'[t] = 0
          /\ pc' = "idle"]_vars

C13_Witness ==
    /\ runs = MaxRuns
    /\ returned.kind = "error"
    /\ db = RowWithoutPlan

\* C14: no outcome of an invocation makes execute_plan raise: the call never
\* ends by an exception, short of the final status, final_result and save.
C14_NoOutcomeAborts ==
    /\ pc # "aborted"
    /\ returned.kind # "raised"

\* C15: at the end of a run on an acyclic plan, a task whose invocations
\* never raised nor missed the window, and that depends, directly or through
\* a chain, on no task whose invocation did, has status completed.
C15_FailureIsolated ==
    (pc = "done" /\ Acyclic) =>
        \A t \in Ids :
            (t \notin faulted /\ DependsOn(t) \cap faulted = {}) =>
                StatusOf(workflow, t) = STATUS_COMPLETED

\* C16: on an acyclic plan a harvest leaves every task that missed an earlier
\* window as it was:
\* status failed, no stored result, in failed_tasks and not in
\* completed_tasks, whatever its invocation did since.
C16_TimedOutStaysFailed ==
    [][\A t \in cancel_requested :
          (pc = "harvest" /\ pc' # "idle" /\ Acyclic) =>
              /\ StatusOf(workflow', t) = STATUS_FAILED
              /\ t \notin DOMAIN workflow'.steps_results
              /\ t \in failed_tasks'
              /\ t \notin completed_tasks']_vars

\* C17: on an acyclic plan, when the object can be saved, a step of the main
\* loop that changes the status of a task starts with every earlier status
\* transition saved: the stored statuses and results equal those of the
\* object.
C17_TransitionsSaved ==
    [][(/\ pc \in {"readiness", "stall", "launch", "harvest"}
        /\ IsRow(workflow')
        /\ Acyclic
        /\ workflow'.step_statuses # workflow.step_statuses
        /\ json_dumps_ok(workflow.steps_results)) =>
          /\ db.step_statuses = workflow.step_statuses
          /\ db.steps_results = workflow.steps_results]_vars

\* C18: the harvest resumes when the first invocation finishes, so a harvest
\* that handles a finished invocation leaves the unfinished ones in flight:
\* it fails none of them for the expiry of the window.
C18_ResumesOnFirstFinished ==
    [][(/\ pc = "harvest"
        /\ pc' \notin {"idle", "aborted"}
        /\ \E t \in running_async_tasks \ cancel_requested :
              t \notin running_async_tasks') =>
          \A u \in running_async_tasks \ cancel_requested :
              u \in running_async_tasks' => StatusOf(workflow', u) = STATUS_RUNNING]_vars

\* C19: load_workflow_state right after a save_workflow_state that returned
\* True gives back the saved object, equal in every field.
C19_LoadAfterSave ==
    pc = "loaded" => returned = workflow

\* C20: a save_workflow_state call that fails returns False and leaves the
\* store as it was: the same row, or no row when there was none.
C20_FailedSaveChangesNothing ==
    pc \in {"not saved", "loaded old"} =>
        /\ db = entry
        /\ pc = "not saved" => returned = [kind |-> "bool", ok |-> FALSE]
        /\ pc = "loaded old" => returned = load_workflow_state(entry, plan)

C20_Witness ==
    /\ pc = "loaded old"
    /\ entry = RowWithoutPlan
    /\ workflow.accepted_plan
    /\ \E t \in DOMAIN workflow.steps_results : workflow.steps_results[t].type = "other"
    /\ returned = RowWithoutPlan

\* C21: a run in which the saves fail (a stored result cannot be written)
\* goes on with the object in memory to its normal end, keeps the statuses
\* and results it has, and reports the failed save to the caller by a
\* message passed to on_update.
C21_SaveFailureReported ==
    (pc = "done" /\ ~json_dumps_ok(workflow.steps_results)) =>
        /\ returned = workflow.final_result
        /\ \A t \in DOMAIN workflow.steps_results :
              StatusOf(workflow, t) = STATUS_COMPLETED
        /\ \E i \in DOMAIN on_update_calls :
              on_update_calls[i][1] = "Failed to save session state"

\* C22: an accept_plan call on a row that has a plan stores the accepted
\* flag, overall status accepted, status pending for exactly the tasks of
\* the plan and an empty result map, and returns True; on a session with no
\* row or no plan it returns False and leaves the store as it was.
AcceptStep == accept_events' = accept_events + 1

C22_AcceptInitialises ==
    [][AcceptStep =>
          IF IsRow(db) /\ db.has_plan
          THEN /\ db'.accepted_plan
               /\ db'.status = "accepted"
               /\ db'.step_statuses = [t \in Ids |-> STATUS_PENDING]
               /\ db'.steps_results = EmptyDict
               /\ background_tasks' = background_tasks + 1
          ELSE /\ db' = db
               /\ background_tasks' = background_tasks]_vars

C22_Witness ==
    /\ accept_events = 2
    /\ pc = "done"
    /\ runs = 1
    /\ Len(plan) = 2
    /\ db.status = "accepted"
    /\ db.steps_results = EmptyDict
    /\ DOMAIN workflow.steps_results = Ids
    /\ \A t \in Ids : StatusOf(db, t) = STATUS_PENDING

\* C23: two runs on the same tasks with the same dependencies, listed in
\* two orders, in which every task's invocation does the same, end with the
\* same status for every task and the same overall status.
C23_OrderIndependent ==
    pc = "ran" =>
        /\ returned.step_statuses = workflow.step_statuses
        /\ returned.status = workflow.status

\* The update-log entries and on_update messages that name one task.
TaskMessages ==
    {"Starting task", "Skipped task", "Completed task", "Failed task",
     "Failed task (timeout)"}
NamesTask(m, t) == Len(m) = 2 /\ m[1] \in TaskMessages /\ m[2] = t

\* C24: on an acyclic plan every step of execute_plan that changes the
\* status of a task (launch, skip, completion, failure, timeout, forced
\* failure on a stall, reset from running to pending on resume) appends an
\* update-log entry for that task and passes a message for it to on_update.
C24_EveryTransitionReported ==
    [][(IsRow(workflow') /\ workflow' # workflow /\ Acyclic) =>
          LET before == IF StartStep THEN db ELSE workflow
              calls == IF StartStep THEN <<>> ELSE on_update_calls
          IN  \A t \in Ids :
                 StatusOf(before, t) # StatusOf(workflow', t) =>
                    /\ \E i \in (Len(before.updates) + 1)..Len(workflow'.updates) :
                          NamesTask(workflow'.updates[i], t)
                    /\ \E i \in (Len(calls) + 1)..Len(on_update_calls') :
                          NamesTask(on_update_calls'[i], t)]_vars

\* A task has a stored result exactly when its status is completed.
ResultIffCompleted(w) ==
    \A t \in Ids : (t \in DOMAIN w.steps_results) <=> (StatusOf(w, t) = STATUS_COMPLETED)

\* C25: once the plan is accepted, in the stored row and in the object of
\* execute_plan a task has a stored result if and only if its status is
\* completed; and the result map a created invocation reads holds a result
\* for every dependency of its task.
C25_ResultIffCompleted ==
    /\ (IsRow(db) /\ db.accepted_plan) => ResultIffCompleted(db)
    /\ IsRow(workflow) => ResultIffCompleted(workflow)
    /\ \A t \in running_async_tasks : DepsOf(t) \subseteq DOMAIN workflow.steps_results

C25_Witness ==
    /\ pc = "harvest"
    /\ db.accepted_plan
    /\ \E t \in running_async_tasks :
          /\ launched[t] = 1
          /\ StatusOf(db, t) = STATUS_RUNNING
          /\ DepsOf(t) # {}
          /\ t \notin DepsOf(t)
          /\ DepsOf(t) \subseteq DOMAIN db.steps_results

\* The status transitions of a task during the main loop.
LoopTransitions ==
    {<<STATUS_PENDING, STATUS_RUNNING>>, <<STATUS_RUNNING, STATUS_COMPLETED>>,
     <<STATUS_RUNNING, STATUS_FAILED>>, <<STATUS_PENDING, STATUS_SKIPPED>>}

\* C26: on an acyclic plan a step of execute_plan changes the status of a
\* task only from pending to running, running to completed, running to
\* failed, pending to skipped, pending to failed in the stall handler, and
\* running to pending in the step that starts the call; a completed, failed
\* or skipped task keeps its status.
C26_TransitionsAllowed ==
    [][(IsRow(workflow') /\ workflow' # workflow /\ Acyclic) =>
          LET before == IF StartStep THEN db ELSE workflow
          IN  \A t \in Ids :
                 LET a == StatusOf(before, t)
                     b == StatusOf(workflow', t)
                 IN  a # b =>
                        IF StartStep
                        THEN a = STATUS_RUNNING /\ b = STATUS_PENDING
                        ELSE \/ <<a, b>> \in LoopTransitions
                             \/ pc = "stall" /\ a = STATUS_PENDING /\ b = STATUS_FAILED]_vars

\* An execute_plan call is between its first save and its return.
Executing == pc \in {"readiness", "stall", "launch", "harvest", "final"}

\* C27: an accept_plan event handled while an execute_plan call on an
\* acyclic plan is in progress with invocations in flight starts no further
\* execute_plan_task and leaves the stored task statuses and results as
\* they were.
C27_OneRunPerSession ==
    [][(AcceptStep /\ Executing /\ running_async_tasks # {} /\ Acyclic) =>
          /\ background_tasks' = background_tasks
          /\ db'.step_statuses = db.step_statuses
          /\ db'.steps_results = db.steps_results]_vars

\* The list a is a prefix of the list b.
IsPrefix(a, b) == Len(a) <= Len(b) /\ SubSeq(b, 1, Len(a)) = a

\* C29: on an acyclic plan with a task, every step leaves the update log
\* it found as a prefix of the log it leaves, in the stored row and in the
\* object of an execute_plan call.
C29_UpdateLogAppendOnly ==
    [][(Len(plan) > 0 /\ Acyclic) =>
          /\ (IsRow(db) /\ IsRow(db')) => IsPrefix(db.updates, db'.updates)
          /\ (IsRow(workflow) /\ IsRow(workflow') /\ ~StartStep) =>
                IsPrefix(workflow.updates, workflow'.updates)]_vars

\* The current execute_plan call was made on the row a stopped run left.
Resumed == IsRow(entry) /\ entry.status = "in_progress" /\ (Executing \/ pc = "done")

\* C28: in an execute_plan call made on the row a stopped run on an acyclic
\* plan left, a task stored as completed keeps its status and result and
\* gets no invocation, a task stored as failed or skipped keeps its status,
\* and the call ends with every task completed, failed or skipped.
C28_ResumeKeepsTerminalAndFinishes ==
    (Resumed /\ Acyclic) =>
        \A t \in Ids :
            /\ StatusOf(entry, t) = STATUS_COMPLETED =>
                  /\ StatusOf(workflow, t) = STATUS_COMPLETED
                  /\ t \in DOMAIN workflow.steps_results
                  /\ workflow.steps_results[t] = entry.steps_results[t]
                  /\ launched[t] = 0
            /\ StatusOf(entry, t) \in {STATUS_FAILED, STATUS_SKIPPED} =>
                  StatusOf(workflow, t) = StatusOf(entry, t)
            /\ pc = "done" => StatusOf(workflow, t) \in Terminal

\* C30: for an acyclic plan with a task, whenever the stored overall
\* status, or that of the object of an execute_plan call, is accepted or
\* in_progress, final_result is absent; so also after a plan is accepted
\* again on a session that has finished a run.
C30_FinalResultOnlyAtEnd ==
    (Len(plan) > 0 /\ Acyclic) =>
        /\ (IsRow(db) /\ db.status \in {"accepted", "in_progress"}) =>
              db.final_result = None
        /\ (IsRow(workflow) /\ workflow.status \in {"accepted", "in_progress"}) =>
              workflow.final_result = None

\* The order of the overall statuses: pending (no plan accepted), accepted,
\* in_progress, then completed or failed.
StatusRank(status) ==
    IF status = "pending" THEN 0
    ELSE IF status = "accepted" THEN 1
    ELSE IF status = "in_progress" THEN 2
    ELSE 3

\* C31: on an acyclic plan with a task, no step moves the stored overall
\* status backwards along accepted, in_progress, completed or failed, and
\* the status of the object of execute_plan is in_progress at every point
\* of the main loop.
C31_StatusMovesForward ==
    [][(Len(plan) > 0 /\ Acyclic) =>
          /\ (IsRow(db) /\ IsRow(db')) =>
                StatusRank(db.status) <= StatusRank(db'.status)
          /\ pc' \in {"readiness", "stall", "launch", "harvest"} =>
                workflow'.status = "in_progress"]_vars

\* The sets of lines 118-119 against the status map: completed_tasks holds
\* the tasks with status completed, failed_tasks those with status failed or
\* skipped, and the two share no task and hold ids of plan tasks only.
BookkeepingAgrees ==
    /\ completed_tasks = {t \in Ids : StatusOf(workflow, t) = STATUS_COMPLETED}
    /\ failed_tasks =
           {t \in Ids : StatusOf(workflow, t) \in {STATUS_FAILED, STATUS_SKIPPED}}
    /\ completed_tasks \cap failed_tasks = {}
    /\ completed_tasks \cup failed_tasks \subseteq Ids

\* C32: on an acyclic plan, at the start of every round of the main loop the
\* completed set is exactly the tasks with status completed, the failed set
\* is exactly the tasks with status failed or skipped, and the two sets are
\* disjoint and hold only ids of plan tasks.
C32_BookkeepingAgreesAtRoundStart ==
    (pc = "readiness" /\ Acyclic) => BookkeepingAgrees

\* The stall handler (lines 180-193) was entered: its message, appended at
\* line 189 after the pending tasks were marked failed, is in the update log.
StallReported(w) ==
    \E i \in 1..Len(w.updates) : w.updates[i][1] = "Workflow stalled"

\* C33: for an acyclic plan the stall handler is never entered: the update
\* log of the running object never holds a stall message, whatever the
\* executor outcomes and the order of the task list.
C33_NoStallOnAcyclicPlan ==
    (Acyclic /\ IsRow(workflow)) => ~StallReported(workflow)

\* C34: on an acyclic plan, at the start of every round of the main loop a
\* task has an entry in running_async_tasks if and only if its status is
\* running: an invocation handled by the harvest step, finished or timed
\* out, is no longer tracked.
C34_TrackedIffRunning ==
    (pc = "readiness" /\ Acyclic) =>
        \A t \in Ids :
            t \in running_async_tasks <=> StatusOf(workflow, t) = STATUS_RUNNING

\* C35: within one execute_plan run the executor is invoked at most once
\* for each task, and a task whose status is skipped was not dispatched in
\* that run.
C35_DispatchedAtMostOnce ==
    \A t \in DOMAIN launched :
        /\ launched[t] <= 1
        /\ StatusOf(workflow, t) = STATUS_SKIPPED => launched[t] = 0

\* A finished run of several rounds in which one task was dispatched once
\* and another was skipped without being dispatched.
C35_Witness ==
    /\ pc = "done"
    /\ Acyclic
    /\ \E t, u \in Ids :
          /\ launched[t] = 1 /\ StatusOf(workflow, t) = STATUS_FAILED
          /\ launched[u] = 0 /\ StatusOf(workflow, u) = STATUS_SKIPPED
    /\ \E t \in Ids : launched[t] = 1 /\ StatusOf(workflow, t) = STATUS_COMPLETED

\* The task is pending and each of its dependencies is in completed_tasks:
\* the test of lines 163-165.
ReadyNow(t) ==
    /\ StatusOf(workflow, t) = STATUS_PENDING
    /\ DepsOf(t) \subseteq completed_tasks

\* C36: every task that is pending with all its dependencies completed at a
\* readiness pass is set running and given an invocation in the dispatch
\* step of the same round: when the loop is at the harvest wait no such
\* task is left pending, and every task found ready in the round is
\* running, in flight, and was dispatched once.
C36_ReadyTasksDispatchedTogether ==
    pc = "harvest" =>
        \A t \in Ids :
            /\ ~ReadyNow(t)
            /\ t \in Range(ready_tasks) =>
                  /\ StatusOf(workflow, t) = STATUS_RUNNING
                  /\ t \in running_async_tasks
                  /\ launched[t] = 1

\* The harvest wait of a later round with two tasks that became ready
\* together both in flight.
C36_Witness ==
    /\ pc = "harvest"
    /\ completed_tasks # {}
    /\ Len(ready_tasks) = 2
    /\ \A i \in 1..Len(ready_tasks) :
          /\ ready_tasks[i] \in running_async_tasks
          /\ StatusOf(workflow, ready_tasks[i]) = STATUS_RUNNING
====
